---- MODULE Spec2Model ----
(***************************************************************************)
(* State-machine model of the TDT4160 repository's Python programs:        *)
(*   - cursor/benchmarks/cache_benchmark.py : generate_sizes, the two      *)
(*     measure_stride_reads_* functions, and main's sweep with its         *)
(*     MemoryError and KeyboardInterrupt handling;                         *)
(*   - examples/thread_demo/thread_overflow.py : the thread-creation loop  *)
(*     and the worker threads sharing thread_count under thread_count_lock.*)
(*                                                                         *)
(* Four specifications share the variables below:                          *)
(*   SpecGen     generate_sizes applied to bounded inputs                  *)
(*   SpecMeasure one call of a measure function, read by read              *)
(*   Spec        main's sweep over the generated sizes                     *)
(*   SpecThreads thread_overflow.py, statement by statement                *)
(***************************************************************************)
EXTENDS Integers, Sequences, FiniteSets, TLC

VARIABLES
    \* ---- cache_benchmark.py: configuration (argparse namespace) and main
    min_kb, max_bytes, repeats, use_list, use_array, csv,
    pc,            \* position of main / of the generate_sizes driver
    sizes,         \* list returned by generate_sizes
    idx,           \* position of `for size_bytes in sizes` (1-based)
    kind,          \* which kind's try block is running: "array" / "list" / "none"
    rep,           \* iterations of `for _ in range(args.repeats)` completed
    samples,       \* the local list `samples`
    ns_array, ns_list,
    live,          \* buffers currently referenced (set of records)
    out,           \* data rows printed to stdout, in order
    err,           \* lines printed to stderr
    status,        \* process exit status, -1 while running
    calls,         \* history: arguments of the measure calls of the latest (size, kind)
    returned,      \* history: values those calls returned
    produced,      \* history: every (size, kind, value) assigned to ns_array / ns_list
    ncalls,        \* history: (size, kind) -> number of measure calls made
    failed,        \* history: (size, kind, at) of every MemoryError, at = ncalls then
    \* ---- cache_benchmark.py: one measure_stride_reads_* call
    m_kind, num_elements, stride_elems, min_accesses, warmup,
    m_pc, m_i, m_loop, accesses_per_loop, loops, total_accesses,
    m_warm_reads,  \* history: reads done by the warm-up walk
    m_reads,       \* history: reads done between the two clock readings
    m_walks,       \* history: lengths of the completed timed walks
    m_cur,         \* history: reads of the timed walk in progress
    m_ret,         \* returned ns_per_access as <<elapsed_ns, total_accesses>>, or <<>>
    \* ---- thread_overflow.py
    thread_count, thread_count_lock, thread_id, threads,
    t_pc, t_reg,   \* main thread: position, value loaded by `thread_count += 1`
    w_pc, w_reg,   \* workers: position, value loaded by `thread_count -= 1`
    incs, decs     \* history: completed increments / decrements

benchVars == <<min_kb, max_bytes, repeats, use_list, use_array, csv, pc, sizes, idx,
               kind, rep, samples, ns_array, ns_list, live, out, err, status, calls,
               returned, produced, ncalls, failed>>
measVars == <<m_kind, num_elements, stride_elems, min_accesses, warmup, m_pc, m_i,
              m_loop, accesses_per_loop, loops, total_accesses, m_warm_reads,
              m_reads, m_walks, m_cur, m_ret>>
thrVars == <<thread_count, thread_count_lock, thread_id, threads, t_pc, t_reg,
             w_pc, w_reg, incs, decs>>
vars == <<benchVars, measVars, thrVars>>

-----------------------------------------------------------------------------
(* Bounds of the model *)
GenMaxMinKb == 6       \* SpecGen: min_kb ranges over 1..GenMaxMinKb
GenMaxBytes == 8200    \* SpecGen: max_bytes ranges over 1..GenMaxBytes
MaxMinKb == 3          \* Spec: min_kb ranges over 1..MaxMinKb
MaxBytesSteps == 2     \* Spec: max_bytes ranges over 2048 - 512 * (0..MaxBytesSteps)
MaxRepeats == 3        \* Spec: repeats ranges over 1..MaxRepeats
MaxSample == 2         \* Spec: a measure call returns one of 2 * (1..MaxSample)
MaxThreads == 3        \* SpecThreads: thread.start() fails once MaxThreads threads exist
MaxElems == 6          \* SpecMeasure: num_elements ranges over 1..MaxElems
MaxStride == 4         \* SpecMeasure: stride_elems ranges over 1..MaxStride
MaxAccesses == 8       \* SpecMeasure: min_accesses ranges over 0..MaxAccesses
MaxElapsed == 2        \* SpecMeasure: end - start ranges over 0..MaxElapsed

(* Python helpers *)
Max(a, b) == IF a >= b THEN a ELSE b

RECURSIVE Pow2(_)
Pow2(p) == IF p <= 0 THEN 1 ELSE 2 * Pow2(p - 1)      \* 1 << p

\* int(math.log2(x)) for x >= 1: the floor of the binary logarithm.
\* (CPython rounds log2 to a double; the truncation is exact below 2^49 - 1.)
RECURSIVE IntLog2(_)
IntLog2(x) == IF x < 2 THEN 0 ELSE 1 + IntLog2(x \div 2)

-----------------------------------------------------------------------------
(* generate_sizes(min_kb, max_bytes) *)
generate_sizes(mkb, mbytes) ==
    LET min_bytes == mkb * 1024
        pow_min == IntLog2(Max(1024, min_bytes))
        pow_max == IntLog2(Max(1024, mbytes))
    IN  [k \in 1..(pow_max - pow_min + 1) |-> Pow2(pow_min + k - 1)]


-----------------------------------------------------------------------------
(* Values the idle parts of the state hold in a specification that does    *)
(* not run them.                                                           *)
\* values of ns_array / ns_list: None, float("nan"), or a number
None == [tag |-> "None", v |-> 0]
NaN == [tag |-> "nan", v |-> 0]
Num(x) == [tag |-> "num", v |-> x]

BenchLocalsInit ==
    /\ sizes = <<>> /\ idx = 0 /\ kind = "none" /\ rep = 0
    /\ samples = <<>> /\ ns_array = None /\ ns_list = None
    /\ live = {} /\ out = <<>> /\ err = <<>> /\ status = -1
    /\ calls = <<>> /\ returned = <<>> /\ produced = <<>>
    /\ ncalls = <<>> /\ failed = {}

IdleBench ==
    /\ min_kb = 1 /\ max_bytes = 1 /\ repeats = 1
    /\ use_list = FALSE /\ use_array = FALSE /\ csv = FALSE
    /\ pc = "idle" /\ BenchLocalsInit

IdleMeas ==
    /\ m_kind = "none" /\ num_elements = 1 /\ stride_elems = 1
    /\ min_accesses = 0 /\ warmup = FALSE /\ m_pc = "idle"
    /\ m_i = 0 /\ m_loop = 0 /\ accesses_per_loop = 0 /\ loops = 0
    /\ total_accesses = 0 /\ m_warm_reads = 0 /\ m_reads = 0
    /\ m_walks = <<>> /\ m_cur = 0 /\ m_ret = <<>>

IdleThr ==
    /\ thread_count = 0 /\ thread_count_lock = "free" /\ thread_id = 0
    /\ threads = <<>> /\ t_pc = "idle" /\ t_reg = 0
    /\ w_pc = <<>> /\ w_reg = <<>> /\ incs = 0 /\ decs = 0

-----------------------------------------------------------------------------
(* SpecGen: generate_sizes as called from main, on bounded inputs *)
GenInit ==
    /\ min_kb \in 1..GenMaxMinKb
    /\ max_bytes \in 1..GenMaxBytes
    /\ repeats = 1 /\ use_list = FALSE /\ use_array = FALSE /\ csv = FALSE
    /\ pc = "gen" /\ BenchLocalsInit
    /\ IdleMeas /\ IdleThr

GenCall ==
    /\ pc = "gen"
    /\ sizes' = generate_sizes(min_kb, max_bytes)
    /\ pc' = "gen_done"
    /\ UNCHANGED <<min_kb, max_bytes, repeats, use_list, use_array, csv, idx, kind,
                   rep, samples, ns_array, ns_list, live, out, err, status, calls,
                   returned, produced, ncalls, failed>>
    /\ UNCHANGED <<measVars, thrVars>>

SpecGen == GenInit /\ [][GenCall]_vars

-----------------------------------------------------------------------------
(* measure_stride_reads_array / measure_stride_reads_list.  The two bodies *)
(* differ only in the buffer they build (array("Q",[0])*n / list(range(n)))*)

\* faulty variants: the two ceiling divisions written as floor divisions
AccessesPerLoopFloor(n, s) == Max(1, n \div s)
LoopsFloor(ma, apl) == Max(1, ma \div apl)

\* accesses_per_loop = max(1, (num_elements + stride_elems - 1) // stride_elems)
AccessesPerLoop(n, s) == Max(1, (n + s - 1) \div s)

\* loops = max(1, (min_accesses + accesses_per_loop - 1) // accesses_per_loop)
Loops(ma, apl) == Max(1, (ma + apl - 1) \div apl)

\* the buffer `data` built by the call
Buffer(k, n, id) == [kind |-> k, len |-> n, id |-> id]

MeasInit ==
    /\ m_kind \in {"array", "list"}
    /\ num_elements \in 1..MaxElems
    /\ stride_elems \in 1..MaxStride
    /\ min_accesses \in 0..MaxAccesses
    /\ warmup \in BOOLEAN
    /\ m_pc = "alloc"
    /\ m_i = 0 /\ m_loop = 0 /\ accesses_per_loop = 0 /\ loops = 0
    /\ total_accesses = 0 /\ m_warm_reads = 0 /\ m_reads = 0
    /\ m_walks = <<>> /\ m_cur = 0 /\ m_ret = <<>>
    /\ IdleBench /\ IdleThr

benchRest == <<min_kb, max_bytes, repeats, use_list, use_array, csv, pc, sizes, idx,
               kind, rep, samples, ns_array, ns_list, out, err, status, calls,
               returned, produced, ncalls, failed>>
measArgs == <<m_kind, num_elements, stride_elems, min_accesses, warmup>>

\* data = array("Q", [0]) * num_elements   /   data = list(range(num_elements))
MeasAlloc ==
    /\ m_pc = "alloc"
    /\ live' = live \cup {Buffer(m_kind, num_elements, <<0, 0>>)}
    /\ m_pc' = IF warmup THEN "warmup" ELSE "plan"
    /\ m_i' = 0
    /\ UNCHANGED <<measArgs, m_loop, accesses_per_loop, loops, total_accesses,
                   m_warm_reads, m_reads, m_walks, m_cur, m_ret>>
    /\ UNCHANGED <<benchRest, thrVars>>

\* the allocation raises MemoryError: nothing is bound, the call is over
MeasAllocFails ==
    /\ m_pc = "alloc"
    /\ m_pc' = "raised"
    /\ UNCHANGED <<measArgs, m_i, m_loop, accesses_per_loop, loops, total_accesses,
                   m_warm_reads, m_reads, m_walks, m_cur, m_ret>>
    /\ UNCHANGED <<benchVars, thrVars>>

\* warm-up walk: for i in range(0, num_elements, stride_elems): s ^= data[i]
MeasWarmupRead ==
    /\ m_pc = "warmup"
    /\ m_i < num_elements
    /\ m_warm_reads' = m_warm_reads + 1
    /\ m_i' = m_i + stride_elems
    /\ UNCHANGED <<measArgs, m_pc, m_loop, accesses_per_loop, loops, total_accesses,
                   m_reads, m_walks, m_cur, m_ret>>
    /\ UNCHANGED <<benchVars, thrVars>>

MeasWarmupEnd ==
    /\ m_pc = "warmup"
    /\ m_i >= num_elements
    /\ m_pc' = "plan"
    /\ UNCHANGED <<measArgs, m_i, m_loop, accesses_per_loop, loops, total_accesses,
                   m_warm_reads, m_reads, m_walks, m_cur, m_ret>>
    /\ UNCHANGED <<benchVars, thrVars>>

\* accesses_per_loop, loops, start = perf_counter_ns(), s = 0
MeasPlan ==
    /\ m_pc = "plan"
    /\ accesses_per_loop' = AccessesPerLoop(num_elements, stride_elems)
    /\ loops' = Loops(min_accesses, accesses_per_loop')
    /\ m_pc' = "timed"
    /\ m_loop' = 0
    /\ m_i' = 0
    /\ UNCHANGED <<measArgs, total_accesses, m_warm_reads, m_reads, m_walks, m_cur,
                   m_ret>>
    /\ UNCHANGED <<benchVars, thrVars>>

\* timed region, inner loop body: s ^= data[i]
MeasTimedRead ==
    /\ m_pc = "timed"
    /\ m_loop < loops
    /\ m_i < num_elements
    /\ m_reads' = m_reads + 1
    /\ m_cur' = m_cur + 1
    /\ m_i' = m_i + stride_elems
    /\ UNCHANGED <<measArgs, m_pc, m_loop, accesses_per_loop, loops, total_accesses,
                   m_warm_reads, m_walks, m_ret>>
    /\ UNCHANGED <<benchVars, thrVars>>

\* timed region, inner range exhausted: next iteration of `for _ in range(loops)`
MeasWalkEnd ==
    /\ m_pc = "timed"
    /\ m_loop < loops
    /\ m_i >= num_elements
    /\ m_walks' = Append(m_walks, m_cur)
    /\ m_cur' = 0
    /\ m_loop' = m_loop + 1
    /\ m_i' = 0
    /\ UNCHANGED <<measArgs, m_pc, accesses_per_loop, loops, total_accesses,
                   m_warm_reads, m_reads, m_ret>>
    /\ UNCHANGED <<benchVars, thrVars>>

\* end = perf_counter_ns(); total_accesses; return (end - start) / total_accesses
MeasReturn ==
    /\ m_pc = "timed"
    /\ m_loop = loops
    /\ \E elapsed \in 0..MaxElapsed :
          /\ total_accesses' = loops * accesses_per_loop
          /\ m_ret' = <<elapsed, total_accesses'>>
    /\ live' = live \ {Buffer(m_kind, num_elements, <<0, 0>>)}
    /\ m_pc' = "returned"
    /\ UNCHANGED <<measArgs, m_i, m_loop, accesses_per_loop, loops, m_warm_reads,
                   m_reads, m_walks, m_cur>>
    /\ UNCHANGED <<benchRest, thrVars>>

MeasNext ==
    \/ MeasAlloc
    \/ MeasAllocFails
    \/ MeasWarmupRead
    \/ MeasWarmupEnd
    \/ MeasPlan
    \/ MeasTimedRead
    \/ MeasWalkEnd
    \/ MeasReturn

SpecMeasure == MeasInit /\ [][MeasNext]_vars


-----------------------------------------------------------------------------
(* main: the sweep.  Configuration values main only passes through are     *)
(* held at their argparse defaults.                                        *)
ElementSize == 8               \* element_size = 8
StrideBytes == 64              \* --stride-bytes default
MinAccessesArg == 1000000      \* --min-accesses default
WarmupArg == TRUE              \* --no-warmup not given

\* values a measure call can return (ns_per_access); even, so that the mean
\* of two of them is again a value of the model
SampleVals == {2 * k : k \in 1..MaxSample}

RECURSIVE Insert(_, _)
Insert(x, sorted) ==
    IF sorted = <<>> THEN <<x>>
    ELSE IF x <= Head(sorted) THEN <<x>> \o sorted
    ELSE <<Head(sorted)>> \o Insert(x, Tail(sorted))

RECURSIVE Sorted(_)
Sorted(data) == IF data = <<>> THEN <<>> ELSE Insert(Head(data), Sorted(Tail(data)))

\* faulty variant: statistics.median_high, the upper middle value for an even count
median_high(data) == Sorted(data)[(Len(data) \div 2) + 1]

\* statistics.median(samples) for a non-empty list: sort, then the middle
\* value, or the mean of the two middle values
median(data) ==
    LET d == Sorted(data)
        n == Len(d)
        i == n \div 2
    IN  IF n % 2 = 1 THEN d[i + 1] ELSE (d[i] + d[i + 1]) \div 2

\* human_bytes(n): <<tenths of the printed number, unit>>, i.e. f"{x:.1f} {unit}"
RECURSIVE HumanLoop(_, _, _)
HumanLoop(n, d, i) ==
    IF n >= 1024 * d /\ i < 3                 \* while x >= 1024.0 and i < len(units) - 1
    THEN HumanLoop(n, d * 1024, i + 1)
    ELSE LET q == (10 * n) \div d
             r == (10 * n) % d
             tenths == IF 2 * r > d \/ (2 * r = d /\ q % 2 = 1) THEN q + 1 ELSE q
         IN  <<tenths, <<"B", "KB", "MB", "GB">>[i + 1]>>
human_bytes(n) == HumanLoop(n, 1, 0)

size_bytes == sizes[idx]
num_elements_array == Max(1, size_bytes \div ElementSize)
num_elements_list == num_elements_array

\* faulty variant: the threshold taken in bytes of a kilobyte-sized minimum
SkipSizeWrongUnit(n) == n * ElementSize < 8 * 1024

\* `if num_elements_array < 8: continue`
SkipSize(n) == n < 8

\* keyword arguments of the measure call of `kind`
CallArgs(k) ==
    [num_elements |-> IF k = "array" THEN num_elements_array ELSE num_elements_list,
     stride_elems |-> Max(1, StrideBytes \div ElementSize),
     min_accesses |-> IF k = "array" THEN MinAccessesArg ELSE MinAccessesArg \div 10,
     warmup |-> WarmupArg]

Enabled(k) == IF k = "array" THEN use_array ELSE use_list

\* one formatted value column of a data row
Cell(ns) ==
    IF ns.tag = "num"                        \* ns is not None and not math.isnan(ns)
    THEN [fmt |-> IF csv THEN ".3f" ELSE ">16.2f", v |-> ns.v]
    ELSE [fmt |-> "nan", v |-> 0]

Row ==
    [bytes |-> size_bytes,
     human |-> human_bytes(size_bytes),
     cells |-> (IF use_array THEN <<Cell(ns_array)>> ELSE <<>>)
               \o (IF use_list THEN <<Cell(ns_list)>> ELSE <<>>)]

Header(ua, ul) ==
    IF csv
    THEN <<"bytes", "human">>
         \o (IF ua THEN <<"ns_per_access_arrayQ">> ELSE <<>>)
         \o (IF ul THEN <<"ns_per_access_list">> ELSE <<>>)
    ELSE <<"bytes", "size">>
         \o (IF ua THEN <<"array_Q ns/access">> ELSE <<>>)
         \o (IF ul THEN <<"list ns/access">> ELSE <<>>)

\* The parsed arguments.  repeats >= 1: with no repeat statistics.median
\* raises on the empty list, a configuration the sweep is not meant to get.
\* max_bytes is int(args.max_gb * 2^30) or args.max_mb * 2^20; the values
\* drawn straddle the 1024-byte floor and the first two powers of two.
Init ==
    /\ min_kb \in 1..MaxMinKb
    /\ max_bytes \in {2048 - 512 * k : k \in 0..MaxBytesSteps}
    /\ repeats \in 1..MaxRepeats
    /\ use_list \in BOOLEAN /\ use_array \in BOOLEAN /\ csv \in BOOLEAN
    /\ pc = "start" /\ BenchLocalsInit
    /\ IdleMeas /\ IdleThr

config == <<min_kb, max_bytes, repeats, csv>>

\* lines 101-137: flags default to both, sizes = generate_sizes(...), header
MainStart ==
    /\ pc = "start"
    /\ LET both == ~use_list /\ ~use_array
       IN  /\ use_list' = (use_list \/ both)
           /\ use_array' = (use_array \/ both)
    /\ sizes' = generate_sizes(min_kb, max_bytes)
    /\ ncalls' = [p \in {sizes'[j] : j \in 1..Len(sizes')} \X {"array", "list"} |-> 0]
    /\ out' = <<[header |-> Header(use_array', use_list')]>>
    /\ idx' = 1
    /\ pc' = "size"
    /\ UNCHANGED <<config, kind, rep, samples, ns_array, ns_list, live, err, status,
                   calls, returned, produced, failed>>
    /\ UNCHANGED <<measVars, thrVars>>

\* `for size_bytes in sizes:` body up to ns_list = None
SizeBegin ==
    /\ pc = "size"
    /\ idx <= Len(sizes)
    /\ IF SkipSize(num_elements_array)
       THEN /\ idx' = idx + 1                 \* continue
            /\ UNCHANGED <<pc, kind, ns_array, ns_list>>
       ELSE /\ ns_array' = None
            /\ ns_list' = None
            /\ kind' = "array"
            /\ pc' = "try"
            /\ UNCHANGED idx
    /\ UNCHANGED <<config, use_list, use_array, sizes, rep, samples, live, out, err,
                   status, calls, returned, produced, ncalls, failed>>
    /\ UNCHANGED <<measVars, thrVars>>

\* where control goes after the try statement of kind k
AfterKind(k) ==
    IF k = "array" THEN kind' = "list" /\ pc' = "try"
    ELSE kind' = "list" /\ pc' = "print"

\* `if args.use_array:` / `if args.use_list:` taken: samples = []
TryKind ==
    /\ pc = "try"
    /\ Enabled(kind)
    /\ samples' = <<>>
    /\ rep' = 0
    /\ calls' = <<>>
    /\ returned' = <<>>
    /\ pc' = "loop"
    /\ UNCHANGED <<config, use_list, use_array, sizes, idx, kind, ns_array, ns_list,
                   live, out, err, status, produced, ncalls, failed>>
    /\ UNCHANGED <<measVars, thrVars>>

\* `if args.use_array:` / `if args.use_list:` not taken
SkipKind ==
    /\ pc = "try"
    /\ ~Enabled(kind)
    /\ AfterKind(kind)
    /\ UNCHANGED <<config, use_list, use_array, sizes, idx, rep, samples, ns_array,
                   ns_list, live, out, err, status, calls, returned, produced, ncalls,
                   failed>>
    /\ UNCHANGED <<measVars, thrVars>>

\* measure_stride_reads_*(...) is called and builds its buffer
CallMeasure ==
    /\ pc = "loop"
    /\ rep < repeats
    /\ calls' = Append(calls, CallArgs(kind))
    /\ ncalls' = [ncalls EXCEPT ![<<size_bytes, kind>>] = @ + 1]
    /\ live' = live \cup {Buffer(kind, CallArgs(kind).num_elements, <<idx, rep>>)}
    /\ pc' = "in_call"
    /\ UNCHANGED <<config, use_list, use_array, sizes, idx, kind, rep, samples,
                   ns_array, ns_list, out, err, status, returned, produced, failed>>
    /\ UNCHANGED <<measVars, thrVars>>

\* faulty variant: the try statement inside the repeat loop, so that a failed repeat
\* is noted as nan and the call is made again
MemoryErrorPerRepeat ==
    /\ pc = "loop"
    /\ rep < repeats
    /\ calls' = Append(calls, CallArgs(kind))
    /\ ncalls' = [ncalls EXCEPT ![<<size_bytes, kind>>] = @ + 1]
    /\ failed' = failed \cup {[size |-> size_bytes, kind |-> kind,
                               at |-> ncalls'[<<size_bytes, kind>>]]}
    /\ IF kind = "array"
       THEN ns_array' = NaN /\ UNCHANGED ns_list
       ELSE ns_list' = NaN /\ UNCHANGED ns_array
    /\ produced' = Append(produced, [size |-> size_bytes, kind |-> kind, value |-> NaN])
    /\ UNCHANGED <<config, use_list, use_array, sizes, idx, kind, pc, rep, samples,
                   live, out, err, status, returned>>
    /\ UNCHANGED <<measVars, thrVars>>

\* the call's allocation raises MemoryError: `except MemoryError:` assigns nan
CallMeasureMemoryError ==
    /\ pc = "loop"
    /\ rep < repeats
    /\ calls' = Append(calls, CallArgs(kind))
    /\ ncalls' = [ncalls EXCEPT ![<<size_bytes, kind>>] = @ + 1]
    /\ failed' = failed \cup {[size |-> size_bytes, kind |-> kind,
                               at |-> ncalls'[<<size_bytes, kind>>]]}
    /\ IF kind = "array"
       THEN ns_array' = NaN /\ UNCHANGED ns_list
       ELSE ns_list' = NaN /\ UNCHANGED ns_array
    /\ produced' = Append(produced, [size |-> size_bytes, kind |-> kind, value |-> NaN])
    /\ AfterKind(kind)
    /\ UNCHANGED <<config, use_list, use_array, sizes, idx, rep, samples, live, out,
                   err, status, returned>>
    /\ UNCHANGED <<measVars, thrVars>>

\* faulty variant: the buffer is kept (cached) after the call returns
MeasureReturnsKeepsBuffer ==
    /\ pc = "in_call"
    /\ \E v \in SampleVals :
          /\ samples' = Append(samples, v)
          /\ returned' = Append(returned, v)
    /\ rep' = rep + 1
    /\ pc' = "loop"
    /\ UNCHANGED <<config, use_list, use_array, sizes, idx, kind, ns_array, ns_list,
                   live, out, err, status, calls, produced, ncalls, failed>>
    /\ UNCHANGED <<measVars, thrVars>>

\* the call returns ns_per_access (its buffer dies with its frame);
\* samples.append(...)
MeasureReturns ==
    /\ pc = "in_call"
    /\ \E v \in SampleVals :
          /\ samples' = Append(samples, v)
          /\ returned' = Append(returned, v)
    /\ live' = live \ {Buffer(kind, CallArgs(kind).num_elements, <<idx, rep>>)}
    /\ rep' = rep + 1
    /\ pc' = "loop"
    /\ UNCHANGED <<config, use_list, use_array, sizes, idx, kind, ns_array, ns_list,
                   out, err, status, calls, produced, ncalls, failed>>
    /\ UNCHANGED <<measVars, thrVars>>

\* range(args.repeats) exhausted: ns_array / ns_list = statistics.median(samples)
Median ==
    /\ pc = "loop"
    /\ rep >= repeats
    /\ LET m == Num(median(samples))
       IN  /\ IF kind = "array"
              THEN ns_array' = m /\ UNCHANGED ns_list
              ELSE ns_list' = m /\ UNCHANGED ns_array
           /\ produced' = Append(produced, [size |-> size_bytes, kind |-> kind,
                                            value |-> m])
    /\ AfterKind(kind)
    /\ UNCHANGED <<config, use_list, use_array, sizes, idx, rep, samples, live, out,
                   err, status, calls, returned, ncalls, failed>>
    /\ UNCHANGED <<measVars, thrVars>>

\* lines 186-206: print the row of this size, then the next size
PrintRow ==
    /\ pc = "print"
    /\ out' = Append(out, Row)
    /\ idx' = idx + 1
    /\ pc' = "size"
    /\ UNCHANGED <<config, use_list, use_array, sizes, kind, rep, samples, ns_array,
                   ns_list, live, err, status, calls, returned, produced, ncalls,
                   failed>>
    /\ UNCHANGED <<measVars, thrVars>>

\* main's frame is left (return or exception): its working locals are gone.
\* sizes and idx are kept as the record of how far the sweep got.
FrameDies ==
    /\ kind' = "none" /\ rep' = 0 /\ samples' = <<>>
    /\ ns_array' = None /\ ns_list' = None
    /\ calls' = <<>> /\ returned' = <<>>

\* sizes exhausted: return 0, sys.exit(0)
MainReturn ==
    /\ pc = "size"
    /\ idx > Len(sizes)
    /\ status' = 0
    /\ pc' = "exited"
    /\ FrameDies
    /\ UNCHANGED <<config, use_list, use_array, sizes, idx, live, out, err, produced,
                   ncalls, failed>>
    /\ UNCHANGED <<measVars, thrVars>>

\* faulty variant: no handler around main(): the interpreter prints a traceback
\* and exits with status 1
InterruptUncaught ==
    /\ pc \notin {"exited"}
    /\ err' = Append(err, "Traceback")
    /\ status' = 1
    /\ live' = {}
    /\ pc' = "exited"
    /\ FrameDies
    /\ UNCHANGED <<config, use_list, use_array, sizes, idx, out, produced, ncalls,
                   failed>>
    /\ UNCHANGED <<measVars, thrVars>>

\* KeyboardInterrupt anywhere in main: the frames unwind,
\* print("Interrupted", file=sys.stderr); sys.exit(130)
Interrupt ==
    /\ pc \notin {"exited"}
    /\ err' = Append(err, "Interrupted")
    /\ status' = 130
    /\ live' = {}
    /\ pc' = "exited"
    /\ FrameDies
    /\ UNCHANGED <<config, use_list, use_array, sizes, idx, out, produced, ncalls,
                   failed>>
    /\ UNCHANGED <<measVars, thrVars>>

Next ==
    \/ MainStart
    \/ SizeBegin
    \/ TryKind
    \/ SkipKind
    \/ CallMeasure
    \/ CallMeasureMemoryError
    \/ MeasureReturns
    \/ Median
    \/ PrintRow
    \/ MainReturn
    \/ Interrupt

Spec == Init /\ [][Next]_vars


-----------------------------------------------------------------------------
(* thread_overflow.py.  `thread_count += 1` and `thread_count -= 1` are a   *)
(* load and a store of the global, each its own step; the lock is a        *)
(* threading.Lock, which has no owner.                                     *)

\* faulty variant: the counter updated without taking the lock
CanAcquireAlways == TRUE

\* `with thread_count_lock:` can enter
CanAcquire == thread_count_lock = "free"

ThrInit ==
    /\ thread_count = 0 /\ thread_count_lock = "free" /\ thread_id = 0
    /\ threads = <<>> /\ t_pc = "create" /\ t_reg = 0
    /\ w_pc = <<>> /\ w_reg = <<>> /\ incs = 0 /\ decs = 0
    /\ IdleBench /\ IdleMeas

\* thread = threading.Thread(...); thread.start()
MainStartThread ==
    /\ t_pc = "create"
    /\ Len(w_pc) < MaxThreads
    /\ w_pc' = Append(w_pc, "sleep")
    /\ w_reg' = Append(w_reg, 0)
    /\ t_pc' = "append"
    /\ UNCHANGED <<thread_count, thread_count_lock, thread_id, threads, t_reg, incs,
                   decs>>
    /\ UNCHANGED <<benchVars, measVars>>

\* thread.start() raises RuntimeError (the system limit): print, break
MainStartFails ==
    /\ t_pc = "create"
    /\ t_pc' = "wait"
    /\ UNCHANGED <<thread_count, thread_count_lock, thread_id, threads, t_reg, w_pc,
                   w_reg, incs, decs>>
    /\ UNCHANGED <<benchVars, measVars>>

\* threads.append(thread)
MainAppend ==
    /\ t_pc = "append"
    /\ threads' = Append(threads, thread_id)
    /\ t_pc' = "inc_id"
    /\ UNCHANGED <<thread_count, thread_count_lock, thread_id, t_reg, w_pc, w_reg,
                   incs, decs>>
    /\ UNCHANGED <<benchVars, measVars>>

\* thread_id += 1
MainIncId ==
    /\ t_pc = "inc_id"
    /\ thread_id' = thread_id + 1
    /\ t_pc' = "acquire"
    /\ UNCHANGED <<thread_count, thread_count_lock, threads, t_reg, w_pc, w_reg, incs,
                   decs>>
    /\ UNCHANGED <<benchVars, measVars>>

\* with thread_count_lock:      (line 51)
MainAcquire ==
    /\ t_pc = "acquire"
    /\ CanAcquire
    /\ thread_count_lock' = "locked"
    /\ t_pc' = "load"
    /\ UNCHANGED <<thread_count, thread_id, threads, t_reg, w_pc, w_reg, incs, decs>>
    /\ UNCHANGED <<benchVars, measVars>>

\* thread_count += 1, the load
MainLoad ==
    /\ t_pc = "load"
    /\ t_reg' = thread_count
    /\ t_pc' = "store"
    /\ UNCHANGED <<thread_count, thread_count_lock, thread_id, threads, w_pc, w_reg,
                   incs, decs>>
    /\ UNCHANGED <<benchVars, measVars>>

\* thread_count += 1, the store
MainStore ==
    /\ t_pc = "store"
    /\ thread_count' = t_reg + 1
    /\ incs' = incs + 1
    /\ t_pc' = "release"
    /\ UNCHANGED <<thread_count_lock, thread_id, threads, t_reg, w_pc, w_reg, decs>>
    /\ UNCHANGED <<benchVars, measVars>>

\* the with block exits; the progress print; back to `while True`
MainRelease ==
    /\ t_pc = "release"
    /\ thread_count_lock' = "free"
    /\ t_pc' = "create"
    /\ UNCHANGED <<thread_count, thread_id, threads, t_reg, w_pc, w_reg, incs, decs>>
    /\ UNCHANGED <<benchVars, measVars>>

\* KeyboardInterrupt inside the outer try: a with block being left releases
\* the lock; the handler prints; control reaches the final wait
MainInterrupt ==
    /\ t_pc \in {"create", "append", "inc_id", "acquire", "load", "store", "release"}
    /\ thread_count_lock' = IF t_pc \in {"load", "store", "release"} THEN "free"
                            ELSE thread_count_lock
    /\ t_pc' = "wait"
    /\ UNCHANGED <<thread_count, thread_id, threads, t_reg, w_pc, w_reg, incs, decs>>
    /\ UNCHANGED <<benchVars, measVars>>

\* time.sleep(2); with thread_count_lock:      (line 76)
MainFinalAcquire ==
    /\ t_pc = "wait"
    /\ CanAcquire
    /\ thread_count_lock' = "locked"
    /\ t_pc' = "final_print"
    /\ UNCHANGED <<thread_count, thread_id, threads, t_reg, w_pc, w_reg, incs, decs>>
    /\ UNCHANGED <<benchVars, measVars>>

\* print the final count, leave the with block, return: the process exits
\* and its daemon threads stop
MainExit ==
    /\ t_pc = "final_print"
    /\ thread_count_lock' = "free"
    /\ t_pc' = "exited"
    /\ UNCHANGED <<thread_count, thread_id, threads, t_reg, w_pc, w_reg, incs, decs>>
    /\ UNCHANGED <<benchVars, measVars>>

Running == t_pc # "exited"

\* worker: time.sleep(1) raises an Exception; `except` prints; `finally` begins
WorkerRaise(i) ==
    /\ Running
    /\ w_pc[i] = "sleep"
    /\ w_pc' = [w_pc EXCEPT ![i] = "acquire"]
    /\ UNCHANGED <<thread_count, thread_count_lock, thread_id, threads, t_pc, t_reg,
                   w_reg, incs, decs>>
    /\ UNCHANGED <<benchVars, measVars>>

\* with thread_count_lock:      (line 25)
WorkerAcquire(i) ==
    /\ Running
    /\ w_pc[i] = "acquire"
    /\ CanAcquire
    /\ thread_count_lock' = "locked"
    /\ w_pc' = [w_pc EXCEPT ![i] = "load"]
    /\ UNCHANGED <<thread_count, thread_id, threads, t_pc, t_reg, w_reg, incs, decs>>
    /\ UNCHANGED <<benchVars, measVars>>

\* thread_count -= 1, the load
WorkerLoad(i) ==
    /\ Running
    /\ w_pc[i] = "load"
    /\ w_reg' = [w_reg EXCEPT ![i] = thread_count]
    /\ w_pc' = [w_pc EXCEPT ![i] = "store"]
    /\ UNCHANGED <<thread_count, thread_count_lock, thread_id, threads, t_pc, t_reg,
                   incs, decs>>
    /\ UNCHANGED <<benchVars, measVars>>

\* thread_count -= 1, the store
WorkerStore(i) ==
    /\ Running
    /\ w_pc[i] = "store"
    /\ thread_count' = w_reg[i] - 1
    /\ decs' = decs + 1
    /\ w_pc' = [w_pc EXCEPT ![i] = "release"]
    /\ UNCHANGED <<thread_count_lock, thread_id, threads, t_pc, t_reg, w_reg, incs>>
    /\ UNCHANGED <<benchVars, measVars>>

\* the with block exits; the thread ends
WorkerRelease(i) ==
    /\ Running
    /\ w_pc[i] = "release"
    /\ thread_count_lock' = "free"
    /\ w_pc' = [w_pc EXCEPT ![i] = "dead"]
    /\ UNCHANGED <<thread_count, thread_id, threads, t_pc, t_reg, w_reg, incs, decs>>
    /\ UNCHANGED <<benchVars, measVars>>

ThrNext ==
    \/ MainStartThread
    \/ MainStartFails
    \/ MainAppend
    \/ MainIncId
    \/ MainAcquire
    \/ MainLoad
    \/ MainStore
    \/ MainRelease
    \/ MainInterrupt
    \/ MainFinalAcquire
    \/ MainExit
    \/ \E i \in 1..Len(w_pc) : WorkerRaise(i)
    \/ \E i \in 1..Len(w_pc) : WorkerAcquire(i)
    \/ \E i \in 1..Len(w_pc) : WorkerLoad(i)
    \/ \E i \in 1..Len(w_pc) : WorkerStore(i)
    \/ \E i \in 1..Len(w_pc) : WorkerRelease(i)

SpecThreads == ThrInit /\ [][ThrNext]_vars


-----------------------------------------------------------------------------
(* Properties *)

Range(seq) == {seq[i] : i \in 1..Len(seq)}
StrictlyAscending(seq) == \A i \in 1..(Len(seq) - 1) : seq[i] < seq[i + 1]

\* the sweep's bounds after the 1024-byte floor
Lo == Max(1024, min_kb * 1024)
Hi == Max(1024, max_bytes)
PowersIn(lo, hi) == {x \in {Pow2(e) : e \in 0..(IntLog2(hi) + 1)} : lo <= x /\ x <= hi}

\* the data rows printed so far (out without the header line)
DataRows == IF out = <<>> THEN <<>> ELSE Tail(out)
KindsEnabled == (IF use_array THEN {"array"} ELSE {}) \cup (IF use_list THEN {"list"} ELSE {})
CellOf(row, k) == IF k = "array" THEN row.cells[1] ELSE row.cells[Len(row.cells)]
\* the result r = (size, kind, value) stands in a printed row
Written(r) ==
    \E j \in 1..Len(DataRows) :
        /\ DataRows[j].bytes = r.size
        /\ CellOf(DataRows[j], r.kind) = Cell(r.value)

\* C1: for min_kb >= 1 and max_bytes >= 1, generate_sizes returns, strictly
\* ascending, exactly the powers of two p with
\* max(1024, min_bytes) <= p <= max(1024, max_bytes).
C1_ExactPowersInRange ==
    pc = "gen_done" =>
        /\ StrictlyAscending(sizes)
        /\ Range(sizes) = PowersIn(Lo, Hi)

\* C2: whenever max(1024, min_bytes) > max(1024, max_bytes), generate_sizes
\* returns the empty sequence, and main then prints no data row and returns 0.
C2_InvertedBoundsEmpty ==
    Lo > Hi =>
        /\ pc # "start" => sizes = <<>>
        /\ pc = "exited" /\ status = 0 => DataRows = <<>>

Planned == m_pc \in {"timed", "returned"}

\* C3 as stated: loops * accesses_per_loop >= min_accesses and loops is the
\* smallest integer (from 0 up) satisfying that, for every min_accesses >= 0.
C3_SmallestInteger ==
    Planned =>
        /\ loops * accesses_per_loop >= min_accesses
        /\ \A k \in 0..(loops - 1) : k * accesses_per_loop < min_accesses

\* C3 as amended: loops * accesses_per_loop >= min_accesses and loops is the
\* smallest integer >= 1 satisfying that (so loops = 1 when min_accesses = 0).
C3_SmallestPositive ==
    Planned =>
        /\ loops >= 1
        /\ loops * accesses_per_loop >= min_accesses
        /\ \A k \in 1..(loops - 1) : k * accesses_per_loop < min_accesses

C3_Witness ==
    /\ m_pc = "returned" /\ m_kind = "list"
    /\ loops = 3 /\ accesses_per_loop = 2 /\ min_accesses = 5

\* C4: accesses_per_loop = ceil(num_elements / stride_elems); the timed
\* region performs exactly loops walks of exactly accesses_per_loop reads,
\* so total_accesses = loops * accesses_per_loop is the number of reads done
\* between the two clock readings, for both buffer kinds.
C4_ReadsMatchDivisor ==
    /\ Planned =>
          /\ accesses_per_loop * stride_elems >= num_elements
          /\ (accesses_per_loop - 1) * stride_elems < num_elements
          /\ Len(m_walks) = m_loop
          /\ \A w \in 1..Len(m_walks) : m_walks[w] = accesses_per_loop
          /\ m_cur <= accesses_per_loop
          /\ m_reads = m_loop * accesses_per_loop + m_cur
    /\ m_pc = "returned" =>
          /\ Len(m_walks) = loops
          /\ total_accesses = loops * accesses_per_loop
          /\ m_reads = total_accesses
          /\ m_ret[2] = m_reads

C4_Witness ==
    /\ m_pc = "returned" /\ m_kind = "array"
    /\ num_elements = 5 /\ stride_elems = 2 /\ loops = 2 /\ m_reads = 6

\* C5: a MemoryError in any repeat of a (size, kind) makes that pair's
\* result NaN, with no further repeat of the pair and no sample mixed in;
\* the sweep goes on: the process ends only by returning 0 or by the
\* interrupt, and a run that returns 0 has measured every enabled kind of
\* every size and printed every size's row, with nan in the failed cells.
C5_MemoryErrorIsLocal ==
    /\ \A f \in failed :
          /\ ncalls[<<f.size, f.kind>>] = f.at
          /\ \E j \in 1..Len(produced) :
                produced[j] = [size |-> f.size, kind |-> f.kind, value |-> NaN]
          /\ \A j \in 1..Len(produced) :
                produced[j].size = f.size /\ produced[j].kind = f.kind
                    => produced[j].value = NaN
    /\ status \in {-1, 0, 130}
    /\ status = 130 => err = <<"Interrupted">>
    /\ pc = "exited" /\ status = 0 =>
          /\ \A i \in 1..Len(sizes) : \A k \in KindsEnabled :
                ncalls[<<sizes[i], k>>] >= 1
          /\ Len(DataRows) = Len(sizes)
          /\ \A f \in failed : Written([size |-> f.size, kind |-> f.kind, value |-> NaN])

C5_Witness ==
    /\ pc = "exited" /\ status = 0
    /\ Len(sizes) = 2 /\ use_array /\ use_list
    /\ failed = {[size |-> sizes[1], kind |-> "array", at |-> 2]}
    /\ Len(produced) = 4

\* declarative median: the k-th smallest of s, and the statistical median
CountLE(s, x) == Cardinality({i \in 1..Len(s) : s[i] <= x})
CountGE(s, x) == Cardinality({i \in 1..Len(s) : s[i] >= x})
OrderStat(s, k) ==
    CHOOSE x \in Range(s) : CountLE(s, x) >= k /\ CountGE(s, x) >= Len(s) - k + 1
IsStatMedian(m, s) ==
    LET n == Len(s)
    IN  IF n % 2 = 1 THEN m = OrderStat(s, (n + 1) \div 2)
        ELSE 2 * m = OrderStat(s, n \div 2) + OrderStat(s, (n \div 2) + 1)

LastProduced == produced[Len(produced)]
\* a try statement of the current size has just been left
AfterTry == (pc = "try" /\ kind = "list" /\ use_array) \/ pc = "print"

\* C6: for a (size, kind) with no allocation failure, main calls the measure
\* function exactly `repeats` times with identical arguments and reports the
\* statistical median of exactly the values those calls returned.
C6_MedianOfRepeats ==
    /\ (AfterTry /\ LastProduced.value.tag = "num") =>
          /\ LastProduced.size = size_bytes
          /\ Len(calls) = repeats
          /\ \A c \in 1..Len(calls) : calls[c] = calls[1]
          /\ ncalls[<<LastProduced.size, LastProduced.kind>>] = repeats
          /\ Len(returned) = repeats
          /\ IsStatMedian(LastProduced.value.v, returned)
          /\ LastProduced.value =
                (IF LastProduced.kind = "array" THEN ns_array ELSE ns_list)
    /\ (pc = "size" /\ produced # <<>>) => Written(LastProduced)

C6_Witness ==
    /\ pc = "print" /\ repeats = 2
    /\ returned = <<4, 2>> /\ ns_list = Num(3)

\* C7 as stated: after a KeyboardInterrupt every result (size, kind, median)
\* produced before it has been written to the output, and the status is 130.
C7_AllProducedWritten ==
    status = 130 =>
        \A j \in 1..Len(produced) : Written(produced[j])

\* C7 as amended: a run that does not return 0 was interrupted and exits
\* with status 130 after printing "Interrupted"; every result of a size
\* completed before the interrupt has been written, the results of the size
\* in progress are not.
C7_CompletedSizesWritten ==
    (pc = "exited" /\ status # 0) =>
        /\ status = 130
        /\ err = <<"Interrupted">>
        /\ \A j \in 1..Len(produced) :
              (idx \in 1..Len(sizes) /\ produced[j].size = sizes[idx])
                  \/ Written(produced[j])

C7_Witness ==
    /\ status = 130 /\ use_list
    /\ Len(DataRows) = 1 /\ Len(produced) = 3
    /\ ~Written(produced[3])

\* C8: at most one buffer is live at any time, and it belongs to the measure
\* call in progress; between calls (next repeat, other kind, next size) none is.
C8_AtMostOneBuffer ==
    /\ Cardinality(live) <= 1
    /\ pc # "in_call" => live = {}
    /\ pc = "in_call" =>
          live = {Buffer(kind, CallArgs(kind).num_elements, <<idx, rep>>)}

C8_Witness ==
    /\ pc = "in_call" /\ idx = 2 /\ kind = "list" /\ rep = 1
    /\ Cardinality(live) = 1

\* C9: an uninterrupted run prints exactly one data row per generated size,
\* in ascending size order, each with one value (number or nan) per enabled
\* kind; no size is skipped, every generated size being >= 1024 bytes.
C9_OneRowPerSize ==
    /\ \A i \in 1..Len(sizes) : sizes[i] >= 1024
    /\ pc \in {"size", "try", "loop", "in_call", "print"} => Len(DataRows) = idx - 1
    /\ pc = "exited" /\ status = 0 =>
          /\ Len(DataRows) = Len(sizes)
          /\ \A i \in 1..Len(sizes) :
                /\ DataRows[i].bytes = sizes[i]
                /\ Len(DataRows[i].cells) = Cardinality(KindsEnabled)
                /\ \A c \in 1..Len(DataRows[i].cells) :
                      DataRows[i].cells[c].fmt \in {".3f", ">16.2f", "nan"}
          /\ StrictlyAscending([i \in 1..Len(DataRows) |-> DataRows[i].bytes])

C9_Witness ==
    /\ pc = "exited" /\ status = 0
    /\ Len(sizes) = 2 /\ Len(DataRows) = 2
    /\ use_array /\ use_list

\* C10: no update of thread_count is lost (every load and store of it
\* happens with thread_count_lock held, by one thread at a time, so
\* thread_count = increments - decrements) and thread_count <= thread_id.
InCritical ==
    (IF t_pc \in {"load", "store", "release", "final_print"} THEN 1 ELSE 0)
    + Cardinality({i \in 1..Len(w_pc) : w_pc[i] \in {"load", "store", "release"}})

C10_CounterConsistent ==
    /\ thread_count = incs - decs
    /\ thread_count <= thread_id
    /\ InCritical <= 1
    /\ InCritical = 1 <=> thread_count_lock = "locked"

C10_Witness ==
    /\ incs = 3 /\ decs = 2 /\ thread_count = 1 /\ thread_id = 3

====
